---- MODULE Spec2Model ----
(***************************************************************************)
(* Model of the smart-parking backend (src/server.js): an Express server   *)
(* whose handlers translate a request into calls on four MongoDB           *)
(* collections, the Firebase identity provider and the socket.io           *)
(* broadcaster.  A handler whose body makes one store call is one atomic   *)
(* action; a handler that awaits several calls is one action per await.    *)
(* Queries that change nothing are operators over the collections.         *)
(***************************************************************************)
EXTENDS Integers, Sequences, FiniteSets, Bags, TLC

\* ------------------------------------------------------------------ bounds
\* ObjectIds generated by insertOne are 1..MaxId, in order of generation.
MaxId == 2
\* Handlers that may be suspended between two of their awaits at once.
MaxInFlight == 2

\* ------------------------------------------------------- values of inputs
\* A field the request does not carry (JavaScript undefined).
Undefined == "undefined"
\* A stored null.
Null == "null"
\* A path parameter that is not a 24-hex-digit string.
MalformedId == 0
\* A query parameter for an id that the request does not carry.
NoId == -1
\* The ids a request can carry: well-formed ones (generated or not) and a
\* malformed one.
IdInputs == 0..MaxId

\* Slot labels are opaque and need not be unique.
SlotNumbers == {"A1"}
VehicleTypes == {"car", "bike"}
SlotStatusInputs == {Undefined, "free", "booked", "broken"}
Uids == {"u1", "u2"}
\* The status values of the session lifecycle, as clients send them.
Lifecycle ==
    {"initial", "parked", "paid", "repay", "entrance_error", "completed"}
\* Bodies of PATCH /api/parking/:entranceId.
PatchBodies ==
    {[status |-> s] : s \in Lifecycle} \cup {[uid |-> u] : u \in Uids}

\* Strings the handlers transform are sequences of characters.
Emails == {<<"a", "@", "x">>, <<"A", "@", "x">>}
\* The empty string: an email the request does not carry.
NoEmail == <<>>
Names == {"Ann"}
Phones == {"017"}
\* Firebase uids a client can send; Firebase holds them since start-up.
FirebaseUids == {"f1"}
FirebaseAtStart == {"f1"}
\* Rates are opaque values; no handler computes with them.
ChargeRates == {"5"}
\* Bodies of PATCH /api/charge-control/:id; the first is {}.
ChargeBodies ==
    {[f \in {} |-> 0], [chargePerMinutes |-> "7"], [vehicleType |-> "car"]}

VARIABLES
    db,             \* the module-level handle: "undefined" or "connected"
    nextId,         \* number of ObjectIds generated so far
    slots,          \* collection "slots"
    parking,        \* collection "parking"
    admininfo,      \* collection "admininfo"
    chargeControls, \* collection "chargeControls"
    firebaseUsers,  \* uids held by Firebase Auth
    pending,        \* bag of the handlers suspended at an await
    resp            \* the last handler step: its answer and its emits

vars == <<db, nextId, slots, parking, admininfo, chargeControls,
          firebaseUsers, pending, resp>>

\* ------------------------------------------------------------ helpers
\* !v of JavaScript for the values the model passes.
Falsy(v) == v \in {Undefined, Null, ""}

\* ObjectId.isValid(id); new ObjectId(id) throws exactly when it is false.
ObjectIdIsValid(id) == id # MalformedId

\* A store call throws when db was never assigned (TypeError) or when the
\* driver reports a failure; ok is the driver's outcome.
StoreCallSucceeds(ok) == db = "connected" /\ ok

\* res.status(code).json({message|error: msg}) and the number of
\* io.emit("db_update") calls the handler step made.
Respond(op, code, msg, emitted) ==
    resp' = [op |-> op, code |-> code, msg |-> msg, emitted |-> emitted]

\* notifyUpdate(): one io.emit("db_update").
notifyUpdate == 1

\* No response was sent.
NoResponse == 0

\* An async handler without try/catch rejected.  Express 4 drops the
\* rejection and the request stays unanswered; Express 5 hands it to the
\* default error handler, which answers 500.
RejectionOutcomes == {NoResponse, 500}

\* d[f], undefined when the document has no such field.
Field(d, f) == IF f \in DOMAIN d THEN d[f] ELSE Undefined

\* collection.find({_id: id})
ById(coll, id) == {d \in coll : d._id = id}

\* Fault: the count of matched documents is never tested.
NoMatchUntested(coll, id) == FALSE

\* result.matchedCount === 0 / result.deletedCount === 0 of a call that
\* filters on _id.
NoMatch(coll, id) == ById(coll, id) = {}

\* The handler h reaches an await and yields; it resumes when the awaited
\* call settles.
Suspend(bag, h) == bag (+) SetToBag({h})
Resume(bag, h) == bag (-) SetToBag({h})

\* {$set: body} applied to the documents matching _id.
SetFields(coll, id, body) ==
    {IF d._id = id
     THEN [f \in DOMAIN d \cup DOMAIN body |->
              IF f \in DOMAIN body THEN body[f] ELSE d[f]]
     ELSE d : d \in coll}

Init ==
    /\ db = "undefined"
    /\ nextId = 0
    /\ slots = {}
    /\ parking = {}
    /\ admininfo = {}
    /\ chargeControls = {}
    /\ firebaseUsers = FirebaseAtStart
    /\ pending = SetToBag({[op |-> "connectDB"]})
    /\ resp = [op |-> "start", code |-> NoResponse, msg |-> "", emitted |-> 0]

\* connectDB() was called at load time and is suspended at
\* await client.connect(); requests are served meanwhile.  On success db is
\* assigned; on failure the error is logged and db stays undefined.
connectDB ==
    /\ BagIn([op |-> "connectDB"], pending)
    /\ pending' = Resume(pending, [op |-> "connectDB"])
    /\ \E ok \in BOOLEAN :
          /\ db' = IF ok THEN "connected" ELSE "undefined"
          /\ Respond("connectDB", NoResponse, "", 0)
    /\ UNCHANGED <<nextId, slots, parking, admininfo, chargeControls,
                   firebaseUsers>>

\* ------------------------------------------------------------ Slot Management
\* POST /api/slots
addSlot(slotNumber, vehicleType, status, ok) ==
    LET st == IF status = Undefined THEN "free" ELSE status IN
    /\ UNCHANGED <<db, parking, admininfo, chargeControls, firebaseUsers,
                   pending>>
    /\ IF Falsy(slotNumber) \/ Falsy(vehicleType)
       THEN /\ Respond("addSlot", 400,
                       "slotNumber and vehicleType are required", 0)
            /\ UNCHANGED <<slots, nextId>>
       ELSE IF ~StoreCallSucceeds(ok)
       THEN /\ Respond("addSlot", 500, "err.message", 0)
            /\ UNCHANGED <<slots, nextId>>
       ELSE /\ nextId < MaxId
            /\ nextId' = nextId + 1
            /\ slots' = slots \cup {[_id |-> nextId + 1,
                                     slotNumber |-> slotNumber,
                                     vehicleType |-> vehicleType,
                                     status |-> st]}
            /\ Respond("addSlot", 201, "Slot added successfully", 0)

\* Fault: the list of allowed values also admits a third status.
allowedStatusWidened == {"free", "booked", "broken"}

allowedStatus == {"free", "booked"}

\* PATCH /api/slots-status-update/:slotId
updateStatus(slotId, status, ok) ==
    /\ UNCHANGED <<db, nextId, parking, admininfo, chargeControls,
                   firebaseUsers, pending>>
    /\ IF ~ObjectIdIsValid(slotId)
       THEN Respond("updateStatus", 400, "Invalid slotId", 0)
            /\ UNCHANGED slots
       ELSE IF Falsy(status)
       THEN Respond("updateStatus", 400, "Status is required", 0)
            /\ UNCHANGED slots
       ELSE IF status \notin allowedStatus
       THEN Respond("updateStatus", 400, "Status must be one of", 0)
            /\ UNCHANGED slots
       ELSE IF ~StoreCallSucceeds(ok)
       THEN Respond("updateStatus", 500, "err.message", 0)
            /\ UNCHANGED slots
       ELSE IF NoMatch(slots, slotId)
       THEN Respond("updateStatus", 404, "Slot not found", 0)
            /\ UNCHANGED slots
       ELSE /\ slots' = SetFields(slots, slotId, [status |-> status])
            /\ Respond("updateStatus", 200,
                       "Slot status updated successfully", notifyUpdate)

\* The updates object of the slot edit: only the supplied fields.
SlotUpdates(slotNumber, vehicleType) ==
    [f \in {g \in {"slotNumber", "vehicleType"} :
               IF g = "slotNumber" THEN slotNumber # Undefined
                                   ELSE vehicleType # Undefined} |->
        IF f = "slotNumber" THEN slotNumber ELSE vehicleType]

\* PATCH /api/slots-update-slotNumber-vehicleType/:id
updateFields(id, slotNumber, vehicleType, ok) ==
    LET updates == SlotUpdates(slotNumber, vehicleType) IN
    /\ UNCHANGED <<db, nextId, parking, admininfo, chargeControls,
                   firebaseUsers, pending>>
    /\ IF DOMAIN updates = {}
       THEN Respond("updateFields", 400,
                    "Only slotNumber or vehicleType can be updated", 0)
            /\ UNCHANGED slots
       ELSE IF db # "connected" \/ ~ObjectIdIsValid(id) \/ ~ok
       THEN Respond("updateFields", 500, "err.message", 0)
            /\ UNCHANGED slots
       ELSE IF NoMatch(slots, id)
       THEN Respond("updateFields", 404, "Slot not found", 0)
            /\ UNCHANGED slots
       ELSE /\ slots' = SetFields(slots, id, updates)
            /\ Respond("updateFields", 200, "Slot updated successfully", 0)

\* DELETE /api/slots/:id
deleteSlot(id, ok) ==
    /\ UNCHANGED <<db, nextId, parking, admininfo, chargeControls,
                   firebaseUsers, pending>>
    /\ IF db # "connected" \/ ~ObjectIdIsValid(id) \/ ~ok
       THEN Respond("deleteSlot", 500, "err.message", 0)
            /\ UNCHANGED slots
       ELSE IF NoMatch(slots, id)
       THEN Respond("deleteSlot", 404, "Slot not found", 0)
            /\ UNCHANGED slots
       ELSE /\ slots' = slots \ ById(slots, id)
            /\ Respond("deleteSlot", 200, "Slot deleted successfully", 0)

\* Fault: the pipeline lacks its $match stage.
MatchFreeMissing(coll) == coll

\* The $match stage of the availability pipeline.
MatchFree(coll) == {d \in coll : d.status = "free"}

\* The $group stage: one accumulator per distinct vehicleType, $sum: 1.
RECURSIVE GroupCount(_, _)
GroupCount(docs, acc) ==
    IF docs = {} THEN acc
    ELSE LET d == CHOOSE x \in docs : TRUE IN
         GroupCount(docs \ {d},
                    IF d.vehicleType \in DOMAIN acc
                    THEN [acc EXCEPT ![d.vehicleType] = @ + 1]
                    ELSE [k \in DOMAIN acc \cup {d.vehicleType} |->
                            IF k = d.vehicleType THEN 1 ELSE acc[k]])

\* GET /api/slots/available: the $project stage over the groups.
availabilityByCategory ==
    LET groups == GroupCount(MatchFree(slots), [k \in {} |-> 0]) IN
    {[vehicleType |-> k, available |-> groups[k]] : k \in DOMAIN groups}

NextSlots ==
    \/ connectDB
    \/ \E n \in SlotNumbers \cup {Undefined}, v \in VehicleTypes \cup {Undefined},
          s \in SlotStatusInputs, ok \in BOOLEAN : addSlot(n, v, s, ok)
    \/ \E id \in IdInputs, s \in SlotStatusInputs, ok \in BOOLEAN :
          updateStatus(id, s, ok)
    \/ \E id \in IdInputs, n \in SlotNumbers \cup {Undefined},
          v \in VehicleTypes \cup {Undefined}, ok \in BOOLEAN :
          updateFields(id, n, v, ok)
    \/ \E id \in IdInputs, ok \in BOOLEAN : deleteSlot(id, ok)

SpecSlots == Init /\ [][NextSlots]_vars

\* ------------------------------------------------------------ Parking Management
\* POST /api/parking/book.  The requester's vehicleType, name, email and
\* phone are stored as received and read by no handler; slotNumber and
\* paidAmount start null like entryTime and exitTime.  booking_time is the
\* moment of the insert.
book(uid, ok) ==
    LET data == [_id |-> nextId + 1, uid |-> uid, booking_time |-> nextId + 1,
                 entryTime |-> Null, exitTime |-> Null, status |-> "inital"] IN
    /\ UNCHANGED <<db, slots, admininfo, chargeControls, firebaseUsers,
                   pending>>
    /\ IF ~StoreCallSucceeds(ok)
       THEN /\ \E c \in RejectionOutcomes :
                  Respond("book", c, "unhandled rejection", 0)
            /\ UNCHANGED <<parking, nextId>>
       ELSE /\ nextId < MaxId
            /\ nextId' = nextId + 1
            /\ parking' = parking \cup {data}
            /\ Respond("book", 201, "Created", notifyUpdate)

\* Fault: the update's match count is tested, and a session that does not
\* exist is answered 404 without a broadcast.
patchWithExistenceCheck(entranceId, body, ok) ==
    /\ UNCHANGED <<db, nextId, slots, admininfo, chargeControls,
                   firebaseUsers, pending>>
    /\ IF db # "connected" \/ ~ObjectIdIsValid(entranceId) \/ ~ok
       THEN /\ \E c \in RejectionOutcomes :
                  Respond("patch", c, "unhandled rejection", 0)
            /\ UNCHANGED parking
       ELSE IF NoMatch(parking, entranceId)
       THEN /\ Respond("patch", 404, "Not Found", 0)
            /\ UNCHANGED parking
       ELSE /\ parking' = SetFields(parking, entranceId, body)
            /\ Respond("patch", 200, "OK", notifyUpdate)

\* PATCH /api/parking/:entranceId
patch(entranceId, body, ok) ==
    /\ UNCHANGED <<db, nextId, slots, admininfo, chargeControls,
                   firebaseUsers, pending>>
    /\ IF db # "connected" \/ ~ObjectIdIsValid(entranceId) \/ ~ok
       THEN /\ \E c \in RejectionOutcomes :
                  Respond("patch", c, "unhandled rejection", 0)
            /\ UNCHANGED parking
       ELSE /\ parking' = SetFields(parking, entranceId, body)
            /\ Respond("patch", 200, "OK", notifyUpdate)

\* The documents of docs, latest booking_time first.
RECURSIVE SortByBookingTimeDesc(_)
SortByBookingTimeDesc(docs) ==
    IF docs = {} THEN <<>>
    ELSE LET d == CHOOSE x \in docs :
                     \A y \in docs : y.booking_time <= x.booking_time IN
         <<d>> \o SortByBookingTimeDesc(docs \ {d})

currentStatuses == {"inital", "parked", "paid", "repay"}
historyStatuses == {"entance_error", "completed"}

\* GET /api/parking/user-current-parking
currentForUser(uid, ok) ==
    IF Falsy(uid) THEN [code |-> 400, body |-> <<>>]
    ELSE IF ~StoreCallSucceeds(ok) THEN [code |-> 500, body |-> <<>>]
    ELSE [code |-> 200,
          body |-> SortByBookingTimeDesc(
                      {d \in parking : d.uid = uid
                                       /\ d.status \in currentStatuses})]

\* GET /api/parking/user-history
historyForUser(uid, ok) ==
    IF Falsy(uid) THEN [code |-> 400, body |-> <<>>]
    ELSE IF ~StoreCallSucceeds(ok) THEN [code |-> 500, body |-> <<>>]
    ELSE [code |-> 200,
          body |-> SortByBookingTimeDesc(
                      {d \in parking : d.uid = uid
                                       /\ d.status \in historyStatuses})]

\* GET /api/parking/times.  The filter names the field userId; the
\* projection keeps _id, entryTime and exitTime.
timesFor(parkingId, userId, ok) ==
    IF parkingId # NoId /\ ~ObjectIdIsValid(parkingId)
    THEN [code |-> 500, body |-> {}]
    ELSE IF ~StoreCallSucceeds(ok) THEN [code |-> 500, body |-> {}]
    ELSE [code |-> 200,
          body |-> {[_id |-> d._id, entryTime |-> Field(d, "entryTime"),
                     exitTime |-> Field(d, "exitTime")] :
                    d \in {x \in parking :
                             /\ parkingId # NoId => x._id = parkingId
                             /\ ~Falsy(userId) =>
                                   Field(x, "userId") = userId}}]

\* The response of GET /api/parking/times.
answerTimesFor(parkingId, userId, ok) ==
    /\ Respond("timesFor", timesFor(parkingId, userId, ok).code, "", 0)
    /\ UNCHANGED <<db, nextId, slots, parking, admininfo, chargeControls,
                   firebaseUsers, pending>>

NextParking ==
    \/ connectDB
    \/ \E id \in IdInputs \cup {NoId}, u \in Uids \cup {Undefined},
          ok \in BOOLEAN : answerTimesFor(id, u, ok)
    \/ \E u \in Uids, ok \in BOOLEAN : book(u, ok)
    \/ \E id \in IdInputs, b \in PatchBodies, ok \in BOOLEAN : patch(id, b, ok)

SpecParking == Init /\ [][NextParking]_vars

\* ------------------------------------------------------------ Charge Management
\* POST /api/charge-control
addCharge(vehicleType, chargePerMinutes, ok) ==
    /\ UNCHANGED <<db, slots, parking, admininfo, firebaseUsers, pending>>
    /\ IF Falsy(vehicleType) \/ chargePerMinutes = Undefined
       THEN /\ Respond("addCharge", 400,
                       "vehicleType and chargePerMinutes are required", 0)
            /\ UNCHANGED <<chargeControls, nextId>>
       ELSE IF ~StoreCallSucceeds(ok)
       THEN /\ Respond("addCharge", 500, "err.message", 0)
            /\ UNCHANGED <<chargeControls, nextId>>
       ELSE /\ nextId < MaxId
            /\ nextId' = nextId + 1
            /\ chargeControls' = chargeControls \cup
                  {[_id |-> nextId + 1, vehicleType |-> vehicleType,
                    chargePerMinutes |-> chargePerMinutes]}
            /\ Respond("addCharge", 201, "Charge control added", 0)

\* PATCH /api/charge-control/:id
updateCharge(id, updates, ok) ==
    /\ UNCHANGED <<db, nextId, slots, parking, admininfo, firebaseUsers,
                   pending>>
    /\ IF DOMAIN updates = {}
       THEN Respond("updateCharge", 400,
                    "No fields provided for update", 0)
            /\ UNCHANGED chargeControls
       ELSE IF db # "connected" \/ ~ObjectIdIsValid(id) \/ ~ok
       THEN Respond("updateCharge", 500, "err.message", 0)
            /\ UNCHANGED chargeControls
       ELSE IF NoMatch(chargeControls, id)
       THEN Respond("updateCharge", 404, "Charge control not found", 0)
            /\ UNCHANGED chargeControls
       ELSE /\ chargeControls' = SetFields(chargeControls, id, updates)
            /\ Respond("updateCharge", 200,
                       "Charge control updated successfully", 0)

\* DELETE /api/charge-control/:id
deleteCharge(id, ok) ==
    /\ UNCHANGED <<db, nextId, slots, parking, admininfo, firebaseUsers,
                   pending>>
    /\ IF db # "connected" \/ ~ObjectIdIsValid(id) \/ ~ok
       THEN Respond("deleteCharge", 500, "err.message", 0)
            /\ UNCHANGED chargeControls
       ELSE IF NoMatch(chargeControls, id)
       THEN Respond("deleteCharge", 404, "Charge control not found", 0)
            /\ UNCHANGED chargeControls
       ELSE /\ chargeControls' = chargeControls \ ById(chargeControls, id)
            /\ Respond("deleteCharge", 200,
                       "Charge control deleted successfully", 0)

NextCharge ==
    \/ connectDB
    \/ \E v \in VehicleTypes \cup {Undefined}, c \in ChargeRates \cup {Undefined},
          ok \in BOOLEAN : addCharge(v, c, ok)
    \/ \E id \in IdInputs, b \in ChargeBodies, ok \in BOOLEAN :
          updateCharge(id, b, ok)
    \/ \E id \in IdInputs, ok \in BOOLEAN : deleteCharge(id, ok)

SpecCharge == Init /\ [][NextCharge]_vars

\* ------------------------------------------------------------ Admin Management
\* Request handlers suspended at an await (connectDB is not a request).
InFlight == BagCardinality(pending) - CopiesIn([op |-> "connectDB"], pending)
CanSuspend == InFlight < MaxInFlight

\* String.prototype.toLowerCase on the letters the model uses.
LowerChar(c) ==
    CASE c = "A" -> "a" [] c = "B" -> "b" [] c = "X" -> "x" [] OTHER -> c
toLowerCase(str) == [i \in 1..Len(str) |-> LowerChar(str[i])]

\* String.prototype.trim
RECURSIVE trim(_)
trim(str) ==
    IF Len(str) = 0 THEN str
    ELSE IF Head(str) = " " THEN trim(Tail(str))
    ELSE IF str[Len(str)] = " " THEN trim(SubSeq(str, 1, Len(str) - 1))
    ELSE str

\* Fault: the existence check looks nothing up.
ByEmailNothing(coll, email) == {}

\* collection.find({email: email}): exact match on the stored string.
ByEmail(coll, email) == {d \in coll : d.email = email}

\* POST /api/admin, up to the await of findOne's result.
addAdmin(name, email, phone, ok) ==
    /\ UNCHANGED <<db, nextId, slots, parking, admininfo, chargeControls,
                   firebaseUsers>>
    /\ IF Falsy(name) \/ email = NoEmail \/ Falsy(phone)
       THEN Respond("addAdmin", 400,
                    "name, email, and phone are required", 0)
            /\ UNCHANGED pending
       ELSE IF ~StoreCallSucceeds(ok)
       THEN Respond("addAdmin", 500, "Failed to add admin", 0)
            /\ UNCHANGED pending
       ELSE IF ByEmail(admininfo, email) # {}
       THEN Respond("addAdmin", 409,
                    "Admin with this email already exists", 0)
            /\ UNCHANGED pending
       ELSE /\ CanSuspend
            /\ pending' = Suspend(pending,
                  [op |-> "addAdmin", name |-> name, email |-> email,
                   phone |-> phone])
            /\ Respond("addAdmin", NoResponse, "await", 0)

\* POST /api/admin, from insertOne to the response.  createdAt is not
\* modelled: no handler but the listing reads it.
addAdminInsertOne(p, ok) ==
    /\ BagIn(p, pending) /\ p.op = "addAdmin"
    /\ pending' = Resume(pending, p)
    /\ UNCHANGED <<db, slots, parking, chargeControls, firebaseUsers>>
    /\ IF ~StoreCallSucceeds(ok)
       THEN /\ Respond("addAdmin.insertOne", 500,
                       "Failed to add admin", 0)
            /\ UNCHANGED <<admininfo, nextId>>
       ELSE /\ nextId < MaxId
            /\ nextId' = nextId + 1
            /\ admininfo' = admininfo \cup
                  {[_id |-> nextId + 1, name |-> p.name, email |-> p.email,
                    phone |-> p.phone]}
            /\ Respond("addAdmin.insertOne", 201,
                       "Admin added successfully", 0)

\* The filter of the update-by-email query.
LinkFilter(email) == toLowerCase(trim(email))

\* PATCH /api/admin/update-by-email.  updateOne changes one of the matching
\* documents; updatedAt is not modelled.
linkIdentity(email, firebaseUid, ok) ==
    LET matched == ByEmail(admininfo, LinkFilter(email)) IN
    /\ UNCHANGED <<db, nextId, slots, parking, chargeControls, firebaseUsers,
                   pending>>
    /\ IF email = NoEmail \/ Falsy(firebaseUid)
       THEN Respond("linkIdentity", 400,
                    "Email and firebaseUid are required", 0)
            /\ UNCHANGED admininfo
       ELSE IF ~StoreCallSucceeds(ok)
       THEN Respond("linkIdentity", 500,
                    "Failed to update admin info", 0)
            /\ UNCHANGED admininfo
       ELSE IF matched = {}
       THEN Respond("linkIdentity", 404, "Admin not found", 0)
            /\ UNCHANGED admininfo
       ELSE /\ \E d \in matched :
                  admininfo' = SetFields(admininfo, d._id,
                                  [firebaseUid |-> firebaseUid,
                                   isRegistered |-> TRUE])
            /\ Respond("linkIdentity", 200,
                       "Admin info updated successfully", 0)

\* GET /api/admin/:id
getAdmin(id, ok) ==
    IF ~ObjectIdIsValid(id) THEN [code |-> 400, body |-> {}]
    ELSE IF ~StoreCallSucceeds(ok) THEN [code |-> 500, body |-> {}]
    ELSE IF ById(admininfo, id) = {} THEN [code |-> 404, body |-> {}]
    ELSE [code |-> 200, body |-> ById(admininfo, id)]

\* The response of GET /api/admin/:id.
answerGetAdmin(id, ok) ==
    /\ Respond("getAdmin", getAdmin(id, ok).code, "", 0)
    /\ UNCHANGED <<db, nextId, slots, parking, admininfo, chargeControls,
                   firebaseUsers, pending>>

\* DELETE /api/admin/:id, up to the first await after findOne.
deleteAdmin(id, ok) ==
    LET found == ById(admininfo, id) IN
    /\ UNCHANGED <<db, nextId, slots, parking, admininfo, chargeControls,
                   firebaseUsers>>
    /\ IF ~ObjectIdIsValid(id)
       THEN Respond("deleteAdmin", 400, "Invalid admin ID", 0)
            /\ UNCHANGED pending
       ELSE IF ~StoreCallSucceeds(ok)
       THEN Respond("deleteAdmin", 500, "Failed to delete admin", 0)
            /\ UNCHANGED pending
       ELSE IF found = {}
       THEN Respond("deleteAdmin", 404, "Admin not found", 0)
            /\ UNCHANGED pending
       ELSE LET adminData == CHOOSE d \in found : TRUE IN
            IF Falsy(Field(adminData, "firebaseUid"))
            THEN Respond("deleteAdmin", 400, "Firebase UID missing", 0)
                 /\ UNCHANGED pending
            ELSE /\ CanSuspend
                 /\ pending' = Suspend(pending,
                       [op |-> "deleteAdmin", id |-> id,
                        firebaseUid |-> adminData.firebaseUid,
                        step |-> 1])
                 /\ Respond("deleteAdmin", NoResponse, "await", 0)

\* Fault: the store record is deleted before the Firebase user.
DeleteAdminStepsSwapped == <<"deleteOne", "deleteUser">>

\* The calls DELETE /api/admin/:id awaits after findOne, in source order.
DeleteAdminSteps == <<"deleteUser", "deleteOne">>

\* The handler p finished the awaited call it was suspended at: it goes on
\* to the next call or, after the last one, answers 200.
DeleteAdminAdvance(p, op) ==
    IF p.step = Len(DeleteAdminSteps)
    THEN /\ pending' = Resume(pending, p)
         /\ Respond(op, 200,
                    "Admin deleted from MongoDB and Firebase successfully", 0)
    ELSE /\ pending' = Suspend(Resume(pending, p),
                               [p EXCEPT !.step = p.step + 1])
         /\ Respond(op, NoResponse, "await", 0)

\* DELETE /api/admin/:id: admin.auth().deleteUser(firebaseUid), which
\* rejects when Firebase has no such user or cannot be reached.
deleteAdminDeleteUser(p, ok) ==
    /\ BagIn(p, pending) /\ p.op = "deleteAdmin"
    /\ DeleteAdminSteps[p.step] = "deleteUser"
    /\ UNCHANGED <<db, nextId, slots, parking, admininfo, chargeControls>>
    /\ IF ~ok \/ p.firebaseUid \notin firebaseUsers
       THEN /\ Respond("deleteAdmin.deleteUser", 500,
                       "Failed to delete admin", 0)
            /\ pending' = Resume(pending, p)
            /\ UNCHANGED firebaseUsers
       ELSE /\ firebaseUsers' = firebaseUsers \ {p.firebaseUid}
            /\ DeleteAdminAdvance(p, "deleteAdmin.deleteUser")

\* DELETE /api/admin/:id: deleteOne({_id}).
deleteAdminDeleteOne(p, ok) ==
    /\ BagIn(p, pending) /\ p.op = "deleteAdmin"
    /\ DeleteAdminSteps[p.step] = "deleteOne"
    /\ UNCHANGED <<db, nextId, slots, parking, chargeControls, firebaseUsers>>
    /\ IF ~StoreCallSucceeds(ok)
       THEN /\ Respond("deleteAdmin.deleteOne", 500,
                       "Failed to delete admin", 0)
            /\ pending' = Resume(pending, p)
            /\ UNCHANGED admininfo
       ELSE /\ admininfo' = admininfo \ ById(admininfo, p.id)
            /\ DeleteAdminAdvance(p, "deleteAdmin.deleteOne")

NextAdmin ==
    \/ connectDB
    \/ \E n \in Names \cup {Undefined}, e \in Emails \cup {NoEmail},
          ph \in Phones \cup {Undefined}, ok \in BOOLEAN :
          addAdmin(n, e, ph, ok)
    \/ \E p \in BagToSet(pending), ok \in BOOLEAN : addAdminInsertOne(p, ok)
    \/ \E e \in Emails \cup {NoEmail}, f \in FirebaseUids \cup {Undefined},
          ok \in BOOLEAN : linkIdentity(e, f, ok)
    \/ \E id \in IdInputs, ok \in BOOLEAN : deleteAdmin(id, ok)
    \/ \E p \in BagToSet(pending), ok \in BOOLEAN : deleteAdminDeleteUser(p, ok)
    \/ \E p \in BagToSet(pending), ok \in BOOLEAN : deleteAdminDeleteOne(p, ok)

SpecAdmin == Init /\ [][NextAdmin]_vars

\* ------------------------------------------------------------ the server
Next ==
    \/ NextSlots \/ NextParking \/ NextCharge \/ NextAdmin
    \/ \E id \in IdInputs, ok \in BOOLEAN : answerGetAdmin(id, ok)

Spec == Init /\ [][Next]_vars

\* ------------------------------------------------------------ registries
\* The add and delete operations of the three registries together.
NextDelete ==
    \/ connectDB
    \/ \E n \in SlotNumbers, v \in VehicleTypes \cup {Undefined},
          ok \in BOOLEAN : addSlot(n, v, Undefined, ok)
    \/ \E id \in IdInputs, ok \in BOOLEAN : deleteSlot(id, ok)
    \/ \E v \in VehicleTypes \cup {Undefined}, c \in ChargeRates,
          ok \in BOOLEAN : addCharge(v, c, ok)
    \/ \E id \in IdInputs, ok \in BOOLEAN : deleteCharge(id, ok)
    \/ \E n \in Names, e \in Emails \cup {NoEmail}, ph \in Phones,
          ok \in BOOLEAN : addAdmin(n, e, ph, ok)
    \/ \E p \in BagToSet(pending), ok \in BOOLEAN : addAdminInsertOne(p, ok)
    \/ \E id \in IdInputs, ok \in BOOLEAN : deleteAdmin(id, ok)

SpecDelete == Init /\ [][NextDelete]_vars

\* ------------------------------------------------------------ properties
\* The handler step mutated no collection and not the identity provider.
StoresUnchanged ==
    UNCHANGED <<slots, parking, admininfo, chargeControls, firebaseUsers>>

\* The handler step answered 400, mutated nothing and broadcast nothing.
Rejected400 == resp'.code = 400 /\ StoresUnchanged /\ resp'.emitted = 0

\* The documents of a query result given as a sequence.
Range(seq) == {seq[i] : i \in 1..Len(seq)}

\* C1: after book(u) on a store without sessions of u, currentForUser(u)
\* returns exactly the new session and its status is "initial"; after
\* patch(id, {status: "completed"}) on a session, historyForUser returns it
\* and currentForUser does not.
C1_BookThenComplete ==
    [][/\ \A u \in Uids, ok \in BOOLEAN :
             (/\ resp'.op = "book"
              /\ StoreCallSucceeds(ok)
              /\ {d \in parking : d.uid = u} = {}
              /\ book(u, ok))
             => LET current == (currentForUser(u, TRUE).body)' IN
                /\ Len(current) = 1
                /\ current[1]._id = nextId'
                /\ current[1].status = "initial"
       /\ \A id \in IdInputs, ok \in BOOLEAN :
             (/\ resp'.op = "patch"
              /\ ObjectIdIsValid(id) /\ StoreCallSucceeds(ok)
              /\ patch(id, [status |-> "completed"], ok))
             => \A d \in ById(parking', id) :
                   /\ d \in Range((historyForUser(d.uid, TRUE).body)')
                   /\ d \notin Range((currentForUser(d.uid, TRUE).body)')
      ]_vars

\* C2: every session whose status is a lifecycle value is returned by
\* exactly one of currentForUser and historyForUser for its own uid: by
\* currentForUser when the status is initial, parked, paid or repay, by
\* historyForUser when it is entrance_error or completed.
C2_CurrentXorHistory ==
    \A d \in parking :
       d.status \in Lifecycle =>
          LET inCurrent == d \in Range(currentForUser(d.uid, TRUE).body)
              inHistory == d \in Range(historyForUser(d.uid, TRUE).body) IN
          /\ d.status \in {"initial", "parked", "paid", "repay"}
                => inCurrent /\ ~inHistory
          /\ d.status \in {"entrance_error", "completed"}
                => inHistory /\ ~inCurrent

\* C3: updateStatus with a status outside {free, booked} answers 400,
\* leaves every slot record unchanged and emits no broadcast.
C3_BadStatusRejected ==
    [][\A id \in IdInputs, st \in SlotStatusInputs \ {"free", "booked"},
          ok \in BOOLEAN :
          (resp'.op = "updateStatus" /\ updateStatus(id, st, ok))
          => /\ resp'.code = 400
             /\ slots' = slots
             /\ resp'.emitted = 0
      ]_vars

\* A stored slot was addressed with a status outside the list and refused.
C3_Witness ==
    /\ resp.op = "updateStatus"
    /\ resp.msg = "Status must be one of"
    /\ resp.code = 400
    /\ slots # {}

\* C4: addAdmin with an email that an admin record already holds answers
\* 409, leaves the admin collection unchanged and starts no insert.
C4_DuplicateEmailConflict ==
    [][\A n \in Names, e \in Emails, ph \in Phones, ok \in BOOLEAN :
          (/\ resp'.op = "addAdmin"
           /\ StoreCallSucceeds(ok)
           /\ \E d \in admininfo : d.email = e
           /\ addAdmin(n, e, ph, ok))
          => /\ resp'.code = 409
             /\ admininfo' = admininfo
             /\ pending' = pending
      ]_vars

\* An addAdmin was refused as a duplicate of a stored record.
C4_Witness ==
    /\ resp.op = "addAdmin"
    /\ resp.code = 409
    /\ admininfo # {}

\* C5: deleteSlot, deleteAdmin and the charge-rule delete, called with a
\* well-formed id that matches no record of their collection while the
\* store answers, return 404 and leave the four collections and the
\* identity provider unchanged.
C5_DeleteMissingIs404 ==
    [][\A id \in IdInputs, ok \in BOOLEAN :
          /\ (/\ resp'.op = "deleteSlot"
              /\ ObjectIdIsValid(id) /\ StoreCallSucceeds(ok)
              /\ \A d \in slots : d._id # id
              /\ deleteSlot(id, ok))
             => resp'.code = 404 /\ StoresUnchanged
          /\ (/\ resp'.op = "deleteAdmin"
              /\ ObjectIdIsValid(id) /\ StoreCallSucceeds(ok)
              /\ \A d \in admininfo : d._id # id
              /\ deleteAdmin(id, ok))
             => resp'.code = 404 /\ StoresUnchanged /\ pending' = pending
          /\ (/\ resp'.op = "deleteCharge"
              /\ ObjectIdIsValid(id) /\ StoreCallSucceeds(ok)
              /\ \A d \in chargeControls : d._id # id
              /\ deleteCharge(id, ok))
             => resp'.code = 404 /\ StoresUnchanged
      ]_vars

\* deleteAdmin answered 404 for an id that no admin record has, while the
\* admin and the slot registry each hold a record.
C5_Witness ==
    /\ resp.op = "deleteAdmin"
    /\ resp.code = 404
    /\ resp.msg = "Admin not found"
    /\ admininfo # {} /\ slots # {}

\* The number of free slots of category c.
FreeCount(c) ==
    Cardinality({d \in slots : d.vehicleType = c /\ d.status = "free"})

\* The entries availabilityByCategory returns for category c.
EntriesFor(c) == {e \in availabilityByCategory : e.vehicleType = c}

\* C6: availabilityByCategory returns exactly one entry for each category
\* that has a free slot, with the number of its free slots, and no entry for
\* any other category; marking a slot booked leaves the entries of the other
\* categories as they were.
C6_AvailabilityCounts ==
    /\ [](/\ \A c \in VehicleTypes :
               EntriesFor(c) =
                  IF FreeCount(c) > 0
                  THEN {[vehicleType |-> c, available |-> FreeCount(c)]}
                  ELSE {}
          /\ \A e \in availabilityByCategory : e.vehicleType \in VehicleTypes)
    /\ [][\A id \in IdInputs, ok \in BOOLEAN :
             (resp'.op = "updateStatus" /\ updateStatus(id, "booked", ok))
             => \A c \in VehicleTypes :
                   (\A d \in ById(slots, id) : d.vehicleType # c)
                   => EntriesFor(c)' = EntriesFor(c)
         ]_vars

\* Every slot of one category is booked, another category has a free slot,
\* and the last step was a status update.
C6_Witness ==
    /\ resp.op = "updateStatus" /\ resp.code = 200
    /\ \E c1, c2 \in VehicleTypes :
          /\ \E d \in slots : d.vehicleType = c1
          /\ \A d \in slots : d.vehicleType = c1 => d.status = "booked"
          /\ EntriesFor(c1) = {}
          /\ FreeCount(c2) > 0

\* C7: every successful addSlot, updateStatus, updateFields, deleteSlot,
\* book and patch is followed by a "data changed" broadcast.
C7_MutationsBroadcast ==
    (/\ resp.op \in {"addSlot", "updateStatus", "updateFields", "deleteSlot",
                     "book", "patch"}
     /\ resp.code \in {200, 201})
    => resp.emitted = 1

\* C8: every operation that takes a record id answers 400 when the id is
\* malformed, mutates nothing and broadcasts nothing (the store being
\* connected and answering).
C8_MalformedIdIs400 ==
    [][\A ok \in {x \in BOOLEAN : StoreCallSucceeds(x)} :
          /\ \A st \in SlotStatusInputs :
                updateStatus(MalformedId, st, ok) => Rejected400
          /\ \A n \in SlotNumbers \cup {Undefined},
                v \in VehicleTypes \cup {Undefined} :
                updateFields(MalformedId, n, v, ok) => Rejected400
          /\ deleteSlot(MalformedId, ok) => Rejected400
          /\ \A b \in PatchBodies :
                patch(MalformedId, b, ok) => Rejected400
          /\ \A u \in Uids \cup {Undefined} :
                answerTimesFor(MalformedId, u, ok) => Rejected400
          /\ answerGetAdmin(MalformedId, ok) => Rejected400
          /\ deleteAdmin(MalformedId, ok) => Rejected400
          /\ \A b \in ChargeBodies :
                updateCharge(MalformedId, b, ok) => Rejected400
          /\ deleteCharge(MalformedId, ok) => Rejected400
      ]_vars

\* C9: deleteAdmin deletes the Firebase user first and the store record
\* second: a deleteAdmin step removes a record only after the Firebase user
\* its handler read is gone, and when the Firebase deletion fails the
\* handler answers 500, removes nothing and makes no further call.
C9_IdentityBeforeStore ==
    [][\A p \in {q \in BagToSet(pending) : q.op = "deleteAdmin"},
          ok \in BOOLEAN :
          /\ (/\ resp'.op = "deleteAdmin.deleteOne"
              /\ admininfo' # admininfo
              /\ deleteAdminDeleteOne(p, ok))
             => p.firebaseUid \notin firebaseUsers
          /\ (/\ resp'.op = "deleteAdmin.deleteUser"
              /\ (~ok \/ p.firebaseUid \notin firebaseUsers)
              /\ deleteAdminDeleteUser(p, ok))
             => /\ resp'.code = 500
                /\ admininfo' = admininfo
                /\ ById(admininfo, p.id) # {} => ById(admininfo', p.id) # {}
                /\ BagCardinality(pending') = BagCardinality(pending) - 1
      ]_vars

\* A deleteAdmin ran to its end: the record and the Firebase user are gone.
C9_Witness ==
    /\ resp.op = "deleteAdmin.deleteOne"
    /\ resp.code = 200
    /\ firebaseUsers # FirebaseAtStart

\* C10: linkIdentity matches the email case-insensitively: every admin
\* record whose email equals the input ignoring letter case gets the subject
\* id and the registration flag, and 404 is answered only when no admin has
\* that email ignoring case.
C10_LinkIgnoresCase ==
    [][\A e \in Emails, f \in FirebaseUids, ok \in BOOLEAN :
          (/\ resp'.op = "linkIdentity" /\ StoreCallSucceeds(ok)
           /\ linkIdentity(e, f, ok))
          => LET same == {d \in admininfo :
                             toLowerCase(d.email) = toLowerCase(e)} IN
             /\ \A d \in same :
                   \E x \in ById(admininfo', d._id) :
                      /\ Field(x, "firebaseUid") = f
                      /\ "isRegistered" \in DOMAIN x /\ x.isRegistered
             /\ resp'.code = 404 => same = {}
      ]_vars

\* The (id, entry time, exit time) projection of a set of sessions.
TimesOf(docs) ==
    {[_id |-> d._id, entryTime |-> d.entryTime, exitTime |-> d.exitTime] :
     d \in docs}

\* C11: timesFor(userId = u) returns the projection of exactly the sessions
\* whose user identifier is u, timesFor(sessionId = i) that of exactly the
\* session with id i, and with both absent that of every session.
C11_TimesForFilters ==
    db = "connected" =>
       /\ \A u \in Uids :
             timesFor(NoId, u, TRUE).body
                = TimesOf({d \in parking : d.uid = u})
       /\ \A i \in 1..MaxId :
             timesFor(i, Undefined, TRUE).body = TimesOf(ById(parking, i))
       /\ timesFor(NoId, Undefined, TRUE).body = TimesOf(parking)

\* C12: in every state reachable through addSlot, updateStatus, updateFields
\* and deleteSlot, every stored slot's occupancy status is free or booked
\* (a slot added without an explicit status being stored as free).
C12_SlotStatusInDomain ==
    \A d \in slots : d.status \in {"free", "booked"}

\* The success response of the session patch.
PatchOK ==
    [op |-> "patch", code |-> 200, msg |-> "OK", emitted |-> notifyUpdate]

\* C13: a patch with a well-formed id that no session has, served by the
\* store, leaves the parking collection unchanged, emits the change broadcast
\* and is answered 200, the same response a patch that changed a session gets.
C13_PatchNoMatchStillBroadcasts ==
    [][/\ \A id \in {i \in 1..MaxId : ById(parking, i) = {}},
             b \in PatchBodies, ok \in {x \in BOOLEAN : StoreCallSucceeds(x)} :
             (resp'.op = "patch" /\ patch(id, b, ok)) =>
                parking' = parking /\ resp' = PatchOK
       /\ (resp'.op = "patch" /\ parking' # parking) => resp' = PatchOK]_vars

\* A patch has been answered 200 with a broadcast while no session exists.
C13_Witness ==
    /\ db = "connected"
    /\ parking = {}
    /\ resp = PatchOK

\* C14: under every interleaving of concurrently handled addAdmin requests,
\* the admin collection never holds two records with the same email.
C14_AdminEmailUnique ==
    \A d1, d2 \in admininfo : d1.email = d2.email => d1 = d2

\* C15: every session request that has been handled to its end was answered;
\* when its store operation failed the answer is the handler's own 500 with
\* a JSON body, not a dropped rejection or the framework's default error
\* page, and no change broadcast was emitted for it.
C15_FailureSurfaced ==
    resp.op \in {"book", "patch", "timesFor"} =>
       /\ resp.code # NoResponse
       /\ resp.msg # "unhandled rejection"
       /\ resp.code = 500 => resp.emitted = 0

====
